---- MODULE Spec2Model ----
(***************************************************************************)
(* Model of gui/builder.go: the Builder that decodes a YAML description of *)
(* gui objects (ParseString), lists the decoded roots (Names) and builds   *)
(* the objects recursively (Build, build, buildPanel, buildLabel,          *)
(* buildEdit), resolving the style fields with parseBorderSizes,           *)
(* parseColor and parseFloats.                                             *)
(*                                                                         *)
(* A Go string is a sequence of one-character strings.  A float32 is the   *)
(* integer it denotes (only decimal digit strings are in the alphabet).    *)
(* A Go error is a record of the parts its message is formatted from.      *)
(***************************************************************************)
EXTENDS Integers, Sequences, FiniteSets, TLC

VARIABLES desc, last, field, pret

vars == <<desc, last, field, pret>>

(***************************************************************************)
(* Bounds of the checked input sets.                                       *)
(***************************************************************************)
\* longest field text enumerated character by character
MaxLen == 4
\* most numbers in a generated list of numbers
MaxCount == 5
\* most padding characters on either side of a generated text
MaxPad == 1
\* most children of a generated Panel description
MaxChildren == 2

(***************************************************************************)
(* Strings.                                                                *)
(***************************************************************************)
Digits == {"0", "1", "2"}

DigitVal(c) == CASE c = "0" -> 0 [] c = "1" -> 1 [] c = "2" -> 2

\* strings.ToLower on one character
LowerChar(c) ==
  CASE c = "R" -> "r" [] c = "E" -> "e" [] c = "D" -> "d" [] c = "B" -> "b"
    [] c = "L" -> "l" [] c = "A" -> "a" [] c = "C" -> "c" [] c = "K" -> "k"
    [] c = "U" -> "u" [] OTHER -> c

ToLower(s) == [i \in 1..Len(s) |-> LowerChar(s[i])]

\* byte value of a character (the order sort.Strings compares by)
Code(c) ==
  CASE c = "a" -> 97 [] c = "b" -> 98 [] c = "e" -> 101 [] c = "m" -> 109
    [] c = "n" -> 110 [] c = "B" -> 66

RECURSIVE TrimLeft(_, _)
TrimLeft(s, c) ==
  IF s # <<>> /\ Head(s) = c THEN TrimLeft(Tail(s), c) ELSE s

RECURSIVE TrimRight(_, _)
TrimRight(s, c) ==
  IF s # <<>> /\ s[Len(s)] = c THEN TrimRight(SubSeq(s, 1, Len(s) - 1), c) ELSE s

\* strings.Trim(s, c) for a one-character cutset
Trim(s, c) == TrimRight(TrimLeft(s, c), c)

\* strings.Index(s, c) for a one-character c, 0-based, -1 when absent
Index(s, c) ==
  IF \E i \in 1..Len(s) : s[i] = c
  THEN (CHOOSE i \in 1..Len(s) : s[i] = c /\ \A j \in 1..(i - 1) : s[j] # c) - 1
  ELSE -1

\* strings.Split(s, c) for a one-character separator
RECURSIVE Split(_, _)
Split(s, c) ==
  LET i == Index(s, c) IN
  IF i < 0 THEN <<s>>
  ELSE <<SubSeq(s, 1, i)>> \o Split(SubSeq(s, i + 2, Len(s)), c)

(***************************************************************************)
(* Errors and results.                                                     *)
(***************************************************************************)
NoErr == [kind |-> "nil"]

Nil == [kind |-> "nil"]

\* b.err: "Error in object:%s field:%s -> %s"
err(pname, fname, msg) ==
  [kind |-> "field", pname |-> pname, fname |-> fname, msg |-> msg]

\* fmt.Errorf("Error parsing float32 field:[%s]: %s", field, err)
FormatErr(text, part) == [kind |-> "parse", field |-> text, part |-> part]

Return(val, e) == [out |-> "return", val |-> val, err |-> e]

\* a Go run-time panic: the call does not return
Panic(why) == [out |-> "panic", val |-> Nil, err |-> NoErr, why |-> why]

fieldMargins == "margins"
fieldBorders == "borders"
fieldBorderColor == "bordercolor"
fieldPaddings == "paddings"
fieldColor == "color"

(***************************************************************************)
(* Field parsers.                                                          *)
(***************************************************************************)
\* strconv.ParseFloat succeeds on the strings of this alphabet that are
\* non-empty digit strings; it accepts no surrounding blanks
IsFloat(s) == s # <<>> /\ \A i \in 1..Len(s) : s[i] \in Digits

RECURSIVE ParseFloat(_)
ParseFloat(s) ==
  IF s = <<>> THEN 0
  ELSE 10 * ParseFloat(SubSeq(s, 1, Len(s) - 1)) + DigitVal(s[Len(s)])

\* SplitField with the precedence reversed: a space anywhere makes the
\* field be cut at its spaces
SplitFieldSpaceFirst(f) ==
  IF Index(f, " ") < 0 THEN Split(f, ",") ELSE Split(f, " ")

\* parseFloats, "Separate individual fields": the trimmed field cut in parts
SplitField(f) ==
  IF Index(f, ",") < 0 THEN Split(f, " ") ELSE Split(f, ",")

\* parseFloats, the count test
CountOk(parts, min, max) == ~(Len(parts) < min \/ Len(parts) > max)

\* the first part (1-based) that strconv.ParseFloat rejects
FirstBad(parts) ==
  CHOOSE i \in 1..Len(parts) :
    ~IsFloat(parts[i]) /\ \A j \in 1..(i - 1) : IsFloat(parts[j])

\* parseFloats from the count test on: f is the trimmed field
parseParts(pname, fname, f, parts, min, max) ==
  IF ~CountOk(parts, min, max)
  THEN Return(Nil, err(pname, fname, "Invalid number of float32 values"))
  ELSE IF \E i \in 1..Len(parts) : ~IsFloat(parts[i])
  THEN Return(Nil, FormatErr(f, parts[FirstBad(parts)]))
  ELSE Return([kind |-> "floats",
               v |-> [i \in 1..Len(parts) |-> ParseFloat(parts[i])]], NoErr)

\* parseFloats after "Checks if field is empty": f is the trimmed field
parseTrimmed(pname, fname, f, min, max) ==
  IF f = <<>> THEN Return(Nil, NoErr)
  ELSE parseParts(pname, fname, f, SplitField(f), min, max)

parseFloats(pname, fname, text, min, max) ==
  parseTrimmed(pname, fname, Trim(text, " "), min, max)

\* &BorderSizes{top, right, bottom, left}
BorderSizes(t, r, b, l) == [kind |-> "sizes", top |-> t, right |-> r, bottom |-> b, left |-> l]

\* &BorderSizes{va[0], va[1], va[2], va[3]}: an index past the end panics
SizesOf(va) ==
  IF Len(va) < 4 THEN Panic("index out of range")
  ELSE Return(BorderSizes(va[1], va[2], va[3], va[4]), NoErr)

\* parseBorderSizes after its call of parseFloats, which returned r
sizesFrom(r) ==
  IF r.val = Nil \/ r.err # NoErr THEN Return(Nil, r.err)
  ELSE IF Len(r.val.v) = 1
  THEN Return(BorderSizes(r.val.v[1], r.val.v[1], r.val.v[1], r.val.v[1]), NoErr)
  ELSE SizesOf(r.val.v)

parseBorderSizes(pname, fname, text) ==
  sizesFrom(parseFloats(pname, fname, text, 1, 4))

\* the colour names of the table and their hexadecimal values
ColorNames ==
  { <<"r","e","d">>, <<"b","l","u","e">>, <<"b","l","a","c","k">> }

ColorHex(name) ==
  CASE name = <<"r","e","d">> -> 16711680
    [] name = <<"b","l","u","e">> -> 255
    [] name = <<"b","l","a","c","k">> -> 0

\* math32.ColorUint: the value of a colour name, 0 for an unknown name
ColorUint(name) ==
  IF ToLower(name) \in ColorNames THEN ColorHex(ToLower(name)) ELSE 0

\* math32.Color.SetName: red, green, blue of a colour name, each in [0, 1]
SetName(name) ==
  LET hex == ColorUint(name) IN
  [R |-> ((hex \div 65536) % 256) \div 255,
   G |-> ((hex \div 256) % 256) \div 255,
   B |-> (hex % 256) \div 255]

Color4(r, g, b, a) == [kind |-> "color", R |-> r, G |-> g, B |-> b, A |-> a]

\* the colour SetName gives, with alpha 1
NamedColor(c) == Return(Color4(c.R, c.G, c.B, 1), NoErr)

\* parseColor, "Checks if field is a color name"
IsColorName(f) == ColorUint(f) # 0

\* parseColor after its call of parseFloats, which returned r
colorFrom(r) ==
  IF r.err # NoErr THEN Return(Nil, r.err)
  ELSE IF Len(r.val.v) = 3
  THEN Return(Color4(r.val.v[1], r.val.v[2], r.val.v[3], 1), NoErr)
  ELSE Return(Color4(r.val.v[1], r.val.v[2], r.val.v[3], r.val.v[4]), NoErr)

\* parseColor after the trim: f is the trimmed field
colorTrimmed(pname, fname, f) ==
  IF f = <<>> THEN Return(Nil, NoErr)
  ELSE IF IsColorName(f) THEN NamedColor(SetName(f))
  ELSE colorFrom(parseFloats(pname, fname, f, 3, 4))

parseColor(pname, fname, text) == colorTrimmed(pname, fname, Trim(text, " "))

(***************************************************************************)
(* YAML documents and yaml.Unmarshal.                                      *)
(* A document either fails to scan, or is a tree of scalars, sequences and *)
(* mappings.  Unmarshal decodes what it can and reports a type error when  *)
(* a value does not fit the Go type it is decoded into.                    *)
(***************************************************************************)
YNull == [kind |-> "null"]
YStr(s) == [kind |-> "str", s |-> s]
YSeq(items) == [kind |-> "seq", items |-> items]
YMap(m) == [kind |-> "map", m |-> m]

\* the keys of the panelDesc fields: the field names in lower case
kType == <<"t","y","p","e">>
kName == <<"n","a","m","e">>
kMargins == <<"m","a","r","g","i","n","s">>
kBorders == <<"b","o","r","d","e","r","s">>
kBorderColor == <<"b","o","r","d","e","r","c","o","l","o","r">>
kPaddings == <<"p","a","d","d","i","n","g","s">>
kColor == <<"c","o","l","o","r">>
kChildren == <<"c","h","i","l","d","r","e","n">>
kText == <<"t","e","x","t">>

\* the zero value of panelDesc
panelDesc ==
  [Type |-> <<>>, Name |-> <<>>, Margins |-> <<>>, Borders |-> <<>>,
   BorderColor |-> <<>>, Paddings |-> <<>>, Color |-> <<>>,
   Children |-> <<>>, Text |-> <<>>]

\* a string field: a scalar sets it, an absent or null value leaves it, a
\* sequence or mapping is a type error
StrField(m, k) ==
  IF k \notin DOMAIN m \/ m[k].kind = "null" THEN [ok |-> TRUE, val |-> <<>>]
  ELSE IF m[k].kind = "str" THEN [ok |-> TRUE, val |-> m[k].s]
  ELSE [ok |-> FALSE, val |-> <<>>]

RECURSIVE UnmarshalStruct(_)
\* a []*panelDesc field
ChildrenField(m) ==
  IF kChildren \notin DOMAIN m \/ m[kChildren].kind = "null"
  THEN [ok |-> TRUE, val |-> <<>>]
  ELSE IF m[kChildren].kind # "seq" THEN [ok |-> FALSE, val |-> <<>>]
  ELSE
    LET items == m[kChildren].items
        rs == [i \in 1..Len(items) |-> UnmarshalStruct(items[i])]
    IN [ok |-> \A i \in 1..Len(items) : rs[i].ok,
        val |-> [i \in 1..Len(items) |-> rs[i].val]]

\* yaml.Unmarshal into a panelDesc
UnmarshalStruct(y) ==
  IF y.kind = "null" THEN [ok |-> TRUE, val |-> panelDesc]
  ELSE IF y.kind # "map" THEN [ok |-> FALSE, val |-> panelDesc]
  ELSE
    LET m == y.m
        ch == ChildrenField(m)
    IN [ok |-> /\ \A k \in {kType, kName, kMargins, kBorders, kBorderColor,
                            kPaddings, kColor, kText} : StrField(m, k).ok
               /\ ch.ok,
        val |-> [Type |-> StrField(m, kType).val,
                 Name |-> StrField(m, kName).val,
                 Margins |-> StrField(m, kMargins).val,
                 Borders |-> StrField(m, kBorders).val,
                 BorderColor |-> StrField(m, kBorderColor).val,
                 Paddings |-> StrField(m, kPaddings).val,
                 Color |-> StrField(m, kColor).val,
                 Children |-> ch.val,
                 Text |-> StrField(m, kText).val]]

\* yaml.Unmarshal into a map[string]*panelDesc: an entry whose value is not
\* a mapping is a type error and is left out
UnmarshalMap(y) ==
  IF y.kind = "null" THEN [ok |-> TRUE, val |-> <<>>]
  ELSE IF y.kind # "map" THEN [ok |-> FALSE, val |-> <<>>]
  ELSE
    LET m == y.m
        good == {k \in DOMAIN m : m[k].kind = "map"}
    IN [ok |-> /\ good = DOMAIN m
               /\ \A k \in good : UnmarshalStruct(m[k]).ok,
        val |-> [k \in good |-> UnmarshalStruct(m[k]).val]]

YamlErr == [kind |-> "yaml"]

(***************************************************************************)
(* Builder: ParseString, Names.                                            *)
(***************************************************************************)
\* b.desc of a new Builder
NewBuilder == <<>>

\* parsedMap storing the decoded map before it looks at the error
parsedMapEager(d, r2) ==
  [err |-> IF r2.ok THEN NoErr ELSE YamlErr, desc |-> r2.val]

\* ParseString after the second yaml.Unmarshal, which gave r2
parsedMap(d, r2) ==
  IF ~r2.ok THEN [err |-> YamlErr, desc |-> d]
  ELSE [err |-> NoErr, desc |-> r2.val]

\* ParseString after the first yaml.Unmarshal, which gave r1
parsedOne(d, root, r1) ==
  IF ~r1.ok THEN [err |-> YamlErr, desc |-> d]
  ELSE IF r1.val.Type # <<>>
  THEN [err |-> NoErr, desc |-> [k \in {<<>>} |-> r1.val]]
  ELSE parsedMap(d, UnmarshalMap(root))

\* ParseString: the error returned and b.desc after the call
ParseString(d, doc) ==
  IF ~doc.ok THEN [err |-> YamlErr, desc |-> d]
  ELSE parsedOne(d, doc.root, UnmarshalStruct(doc.root))

\* the order of sort.Strings: byte-wise lexicographic
RECURSIVE StrLess(_, _)
StrLess(s, t) ==
  IF t = <<>> THEN FALSE
  ELSE IF s = <<>> THEN TRUE
  ELSE IF Code(Head(s)) # Code(Head(t)) THEN Code(Head(s)) < Code(Head(t))
  ELSE StrLess(Tail(s), Tail(t))

RECURSIVE SortStrings(_)
SortStrings(S) ==
  IF S = {} THEN <<>>
  ELSE LET lo == CHOOSE s \in S : \A t \in S \ {s} : StrLess(s, t)
       IN <<lo>> \o SortStrings(S \ {lo})

Names(d) == SortStrings(DOMAIN d)

(***************************************************************************)
(* Builder: Build, build and the constructors.                             *)
(***************************************************************************)
descTypePanel == <<"P","a","n","e","l">>
descTypeLabel == <<"L","a","b","e","l">>
descTypeEdit == <<"E","d","i","t">>

\* an attribute NewPanel leaves at its built-in value
Default == [kind |-> "default"]

\* NewPanel followed by SetPosition: a panel with no children
NewPanel ==
  [kind |-> "Panel", margins |-> Default, borders |-> Default,
   bordersColor |-> Default, paddings |-> Default, color |-> Default,
   children |-> <<>>]

\* NewLabel followed by SetPosition
NewLabel(text) == [kind |-> "Label", text |-> text]

\* how Panel.Add treats a nil child: it is attached like any other value,
\* or the call panics
NilAdds == {"attach", "panic"}

\* Panel.Add: the child is appended to the panel's children
Add(pan, child, na) ==
  IF child = Nil /\ na = "panic"
  THEN [out |-> "panic", pan |-> pan]
  ELSE [out |-> "return", pan |-> [pan EXCEPT !.children = Append(@, child)]]

\* the result of build: what it returns, and the parent after the call
Built(r, parent) == [out |-> r.out, val |-> r.val, err |-> r.err, parent |-> parent]

\* fmt.Errorf("Invalid panel type:%s", pd.Type)
TypeErr(type) == [kind |-> "type", type |-> type]

\* fmt.Errorf("Object name:%s not found", name)
NotFoundErr(name) == [kind |-> "notfound", name |-> name]

buildLabel(pd, name) == Return(NewLabel(pd.Text), NoErr)

buildEdit(pa, name) == Return(Nil, NoErr)

\* a setter applied when the parsed value is not nil
SetIf(pan, attr, v) == IF v = Nil THEN pan ELSE [pan EXCEPT ![attr] = v]

\* buildPanel up to "Children": the five style fields parsed in the order
\* margins, borders, bordercolor, paddings, color; the first error or panic
\* ends the call, otherwise each value that is not nil is set
styled(m, b, bc, p, c) ==
  IF m.out = "panic" THEN m ELSE IF m.err # NoErr THEN Return(Nil, m.err)
  ELSE IF b.out = "panic" THEN b ELSE IF b.err # NoErr THEN Return(Nil, b.err)
  ELSE IF bc.err # NoErr THEN Return(Nil, bc.err)
  ELSE IF p.out = "panic" THEN p ELSE IF p.err # NoErr THEN Return(Nil, p.err)
  ELSE IF c.err # NoErr THEN Return(Nil, c.err)
  ELSE Return(SetIf(SetIf(SetIf(SetIf(SetIf(NewPanel,
                "margins", m.val), "borders", b.val), "bordersColor", bc.val),
                "paddings", p.val), "color", c.val), NoErr)

\* added going on to the next child when a child fails to build
addedSkip(r, na) ==
  IF r.out = "panic" THEN Panic("child")
  ELSE IF r.err # NoErr THEN Return(r.parent, NoErr)
  ELSE IF Add(r.parent, r.val, na).out = "panic" THEN Panic("Add")
  ELSE Return(Add(r.parent, r.val, na).pan, NoErr)

\* buildPanel, the body of the "Children" loop after build returned r
added(r, na) ==
  IF r.out = "panic" THEN Panic("child")
  ELSE IF r.err # NoErr THEN Return(Nil, r.err)
  ELSE IF Add(r.parent, r.val, na).out = "panic" THEN Panic("Add")
  ELSE Return(Add(r.parent, r.val, na).pan, NoErr)

\* build after the switch on pd.Type, which gave r
attached(r, parent, na) ==
  IF r.out = "panic" THEN Built(r, parent)
  ELSE IF r.err # NoErr THEN Built(Return(Nil, r.err), parent)
  ELSE IF parent # Nil
  THEN IF Add(parent, r.val, na).out = "panic" THEN Built(Panic("Add"), parent)
       ELSE Built(Return(r.val, NoErr), Add(parent, r.val, na).pan)
  ELSE Built(Return(r.val, NoErr), parent)

RECURSIVE build(_, _, _, _)

\* buildPanel, "Children": loop[i] is the state of the loop after i children,
\* the panel so far or the error or panic that ended the loop
children(pd, pname, start, na) ==
  LET loop[i \in 0..Len(pd.Children)] ==
        IF i = 0 THEN start
        ELSE IF loop[i - 1].out = "panic" \/ loop[i - 1].err # NoErr THEN loop[i - 1]
        ELSE added(build(pd.Children[i], pname, loop[i - 1].val, na), na)
  IN loop[Len(pd.Children)]

buildPanel(pd, pname, na) ==
  children(pd, pname,
           styled(parseBorderSizes(pname, fieldMargins, pd.Margins),
                  parseBorderSizes(pname, fieldBorders, pd.Borders),
                  parseColor(pname, fieldBorderColor, pd.BorderColor),
                  parseBorderSizes(pname, fieldPaddings, pd.Paddings),
                  parseColor(pname, fieldColor, pd.Color)),
           na)

build(pd, pname, parent, na) ==
  attached(CASE pd.Type = descTypePanel -> buildPanel(pd, pname, na)
             [] pd.Type = descTypeLabel -> buildLabel(pd, pname)
             [] pd.Type = descTypeEdit -> buildEdit(pd, pname)
             [] OTHER -> Return(Nil, TypeErr(pd.Type)),
           parent, na)

\* Lookup entering a zero description under a name that is not held
LookupInsert(d, name) ==
  [ok |-> name \in DOMAIN d,
   pd |-> IF name \in DOMAIN d THEN d[name] ELSE panelDesc,
   desc |-> [k \in DOMAIN d \cup {name} |-> IF k \in DOMAIN d THEN d[k] ELSE panelDesc]]

\* Build, "pd, ok := b.desc[name]": the entry read, and b.desc after the read
Lookup(d, name) ==
  [ok |-> name \in DOMAIN d,
   pd |-> IF name \in DOMAIN d THEN d[name] ELSE panelDesc,
   desc |-> d]

\* Build after the read of b.desc, which gave l
built(l, name, r) ==
  IF ~l.ok THEN [ret |-> Return(Nil, NotFoundErr(name)), desc |-> l.desc]
  ELSE [ret |-> [out |-> r.out, val |-> r.val, err |-> r.err], desc |-> l.desc]

\* Build: what it returns, and b.desc after the call
Build(d, name, na) ==
  built(Lookup(d, name), name, build(Lookup(d, name).pd, name, Nil, na))

(***************************************************************************)
(* Input texts of the field parsers.                                       *)
(***************************************************************************)
TextChars == {" ", ",", "1", "2", "x"}

\* every text of at most MaxLen characters
ShortTexts == UNION { [1..n -> TextChars] : n \in 0..MaxLen }

RECURSIVE Join(_, _)
Join(toks, sep) ==
  IF Len(toks) = 0 THEN <<>>
  ELSE IF Len(toks) = 1 THEN toks[1]
  ELSE toks[1] \o sep \o Join(Tail(toks), sep)

\* lists of one-digit numbers joined by one separator
ListTexts ==
  { Join([i \in 1..n |-> <<d[i]>>], sep) :
      n \in 1..MaxCount,
      d \in [1..MaxCount -> {"1", "2"}],
      sep \in {<<",">>, <<" ">>, <<",", " ">>} }

NameTexts ==
  ColorNames \cup { <<"R","e","d">>, <<"R","E","D">>, <<"B","l","a","c","k">>,
                    <<"B","L","U","E">>, <<"r","e","x">> }

Pads == UNION { [1..n -> {" ", "\t"}] : n \in 0..MaxPad }

PaddedTexts ==
  { l \o t \o r : l \in Pads, r \in Pads,
                  t \in NameTexts \cup {<<"1">>, <<"1",",","2",",","1">>, <<"2",",","1",",","2",",","1">>} }

FieldTexts == ShortTexts \cup ListTexts \cup PaddedTexts

NoCall == [fn |-> "none"]

(***************************************************************************)
(* The field parsers applied to a drawn text.                              *)
(***************************************************************************)
InitFields ==
  /\ desc = <<>>
  /\ last = NoCall
  /\ field \in FieldTexts
  /\ pret = NoCall

CallParseFloats ==
  /\ pret = NoCall
  /\ \E b \in {<<1, 4>>, <<3, 4>>} :
       pret' = [fn |-> "parseFloats", min |-> b[1], max |-> b[2],
                ret |-> parseFloats(<<"a">>, fieldMargins, field, b[1], b[2])]
  /\ UNCHANGED <<desc, last, field>>

CallParseBorderSizes ==
  /\ pret = NoCall
  /\ pret' = [fn |-> "parseBorderSizes",
              ret |-> parseBorderSizes(<<"a">>, fieldBorders, field)]
  /\ UNCHANGED <<desc, last, field>>

CallParseColor ==
  /\ pret = NoCall
  /\ pret' = [fn |-> "parseColor",
              ret |-> parseColor(<<"a">>, fieldColor, field)]
  /\ UNCHANGED <<desc, last, field>>

NextFields == CallParseFloats \/ CallParseBorderSizes \/ CallParseColor

SpecFields == InitFields /\ [][NextFields]_vars

(***************************************************************************)
(* Input documents of ParseString.                                         *)
(***************************************************************************)
\* the YAML mapping that writes a description: a key for every non-empty
\* string field, and children for a non-empty list
YNode(n) ==
  LET strs == { <<kType, n.Type>>, <<kName, n.Name>>, <<kMargins, n.Margins>>,
                <<kBorders, n.Borders>>, <<kBorderColor, n.BorderColor>>,
                <<kPaddings, n.Paddings>>, <<kColor, n.Color>>, <<kText, n.Text>> }
      present == {q \in strs : q[2] # <<>>}
      keys == {q[1] : q \in present} \cup
              (IF n.Children # <<>> THEN {kChildren} ELSE {})
  IN YMap([k \in keys |->
             IF k = kChildren THEN YSeq(n.Children)
             ELSE YStr((CHOOSE q \in present : q[1] = k)[2])])

tOne == <<"1">>
tTwo == <<"1", ",", "2">>
tFour == <<"2", ",", "1", ",", "2", ",", "1">>
tFive == <<"1", ",", "2", ",", "1", ",", "2", ",", "1">>
tBad == <<"1", ",", "x">>
tRed == <<"r", "e", "d">>
tBlack == <<"b", "l", "a", "c", "k">>
tRGB == <<"1", " ", "0", " ", "2">>
nameN == <<"n">>
nameAB == <<"a", "b">>
typeFoo == <<"F", "o", "o">>

Plain == [Margins |-> <<>>, Borders |-> <<>>, BorderColor |-> <<>>,
          Paddings |-> <<>>, Color |-> <<>>]

\* the style fields the generated Panel descriptions take
PanelStyles ==
  { Plain,
    [Plain EXCEPT !.Margins = tOne],
    [Plain EXCEPT !.Margins = tTwo],
    [Plain EXCEPT !.Borders = tBad],
    [Plain EXCEPT !.BorderColor = tRed],
    [Plain EXCEPT !.Paddings = tFive],
    [Plain EXCEPT !.Color = tBlack],
    [Plain EXCEPT !.Margins = tFour, !.Color = tRGB],
    [Plain EXCEPT !.Borders = tBad, !.Paddings = tFive],
    [Plain EXCEPT !.BorderColor = tTwo, !.Color = tBad] }

Y(type, name, st, text, kids) ==
  YNode([Type |-> type, Name |-> name, Margins |-> st.Margins,
         Borders |-> st.Borders, BorderColor |-> st.BorderColor,
         Paddings |-> st.Paddings, Color |-> st.Color, Text |-> text,
         Children |-> kids])

YLabel == Y(descTypeLabel, nameN, Plain, <<"x">>, <<>>)
YEdit == Y(descTypeEdit, nameN, Plain, <<>>, <<>>)
YFoo == Y(typeFoo, nameN, Plain, <<>>, <<>>)

\* descriptions without children of every type
KidPool == { YLabel, YEdit, YFoo, Y(descTypePanel, nameN, Plain, <<>>, <<>>) }

\* descriptions without children
Leaves ==
  KidPool \cup { Y(descTypePanel, nameN, [Plain EXCEPT !.Paddings = tFive], <<>>, <<>>) }

Kids(S) == UNION { [1..n -> S] : n \in 1..MaxChildren }

\* panels whose children are leaves
Mid == { Y(descTypePanel, nameAB, Plain, <<>>, kids) : kids \in Kids(KidPool) }

\* panels with grandchildren, and children under parents that are no panels
Deep ==
  { Y(descTypePanel, nameAB, Plain, <<>>,
      << YLabel, Y(descTypePanel, nameN, Plain, <<>>, <<g>>) >>) : g \in Leaves }
  \cup
  { Y(descTypePanel, nameAB, Plain, <<>>,
      << YLabel, Y(descTypePanel, nameN, [Plain EXCEPT !.Borders = tBad], <<>>, <<>>) >>),
    Y(descTypeLabel, nameAB, Plain, <<"x">>, <<YFoo>>),
    Y(descTypeEdit, nameAB, Plain, <<>>, <<YFoo>>),
    Y(descTypePanel, nameAB, Plain, <<>>,
      << Y(descTypeLabel, nameN, Plain, <<"x">>, <<YFoo>>) >>),
    Y(descTypePanel, nameAB, [Plain EXCEPT !.Margins = tTwo], <<>>, <<YFoo>>) }

Styled == { Y(descTypePanel, nameAB, st, <<>>, <<>>) : st \in PanelStyles }

\* a record without a type
Untyped == { Y(<<>>, nameAB, Plain, <<>>, <<>>), Y(<<>>, <<>>, Plain, <<>>, <<YLabel>>) }

Roots == Leaves \cup Mid \cup Deep \cup Styled

\* the keys of the mapping documents
RootKeys == { <<"b">>, nameAB, kName }

\* the record written under a key of a mapping document
EntryFor(k) ==
  IF k = <<"b">> THEN Y(descTypeLabel, <<"b">>, Plain, <<"x">>, <<>>)
  ELSE IF k = nameAB
  THEN Y(descTypePanel, nameAB, Plain, <<>>,
         << YLabel, Y(descTypePanel, nameN, [Plain EXCEPT !.Paddings = tFive], <<>>, <<>>) >>)
  ELSE Y(descTypePanel, k, Plain, <<>>, <<>>)

\* mappings from keys to records, and mappings with a scalar among the values
MapDocs ==
  { YMap([k \in K |-> EntryFor(k)]) : K \in SUBSET RootKeys }
  \cup
  { YMap([k \in K |-> IF k = <<"b">> THEN YStr(<<"x">>) ELSE EntryFor(k)]) :
      K \in { {<<"b">>}, {<<"b">>, nameAB} } }

Docs ==
  { [ok |-> FALSE] }
  \cup { [ok |-> TRUE, root |-> y] :
           y \in Roots \cup Untyped \cup MapDocs \cup {YNull, YStr(<<"x">>)} }

BuildNames == RootKeys \cup { <<>>, <<"z">> }

(***************************************************************************)
(* The Builder's operations.                                               *)
(***************************************************************************)
Init ==
  /\ desc = NewBuilder
  /\ last = NoCall
  /\ field = <<>>
  /\ pret = NoCall

\* the call has returned r: the Builder holds r.desc
Parsed(doc, r) ==
  /\ desc' = r.desc
  /\ last' = [fn |-> "ParseString", doc |-> doc, err |-> r.err]

DoParseString ==
  /\ \E doc \in Docs : Parsed(doc, ParseString(desc, doc))
  /\ UNCHANGED <<field, pret>>

DoNames ==
  /\ last' = [fn |-> "Names", ret |-> Names(desc)]
  /\ UNCHANGED <<desc, field, pret>>

\* the call has returned r.ret: the Builder holds r.desc
Returned(name, na, r) ==
  /\ desc' = r.desc
  /\ last' = [fn |-> "Build", name |-> name, na |-> na, ret |-> r.ret]

DoBuild ==
  /\ \E name \in BuildNames, na \in NilAdds : Returned(name, na, Build(desc, name, na))
  /\ UNCHANGED <<field, pret>>

Next == DoParseString \/ DoNames \/ DoBuild

Spec == Init /\ [][Next]_vars

(***************************************************************************)
(* Properties of the field parsers, checked under SpecFields.              *)
(***************************************************************************)
Count(f, c) == Cardinality({i \in 1..Len(f) : f[i] = c})

\* the trimmed text is k numbers written with the separator sep
HoldsNumbers(f, sep, k) ==
  /\ f # <<>>
  /\ Len(Split(f, sep)) = k
  /\ \A i \in 1..k : IsFloat(Split(f, sep)[i])

NumberAt(f, sep, i) == ParseFloat(Split(f, sep)[i])

\* C2: parseBorderSizes returns nil and no error for a text that is empty
\* after trimming, four sides equal to v for one number v, the four numbers
\* in the order written for four numbers, and a field-count error (an error
\* value, no crash, no sizes) for 2, 3 or more than 4 numbers.
C2_SizesOrCountError ==
  pret.fn = "parseBorderSizes" =>
    LET f == Trim(field, " ")
        r == pret.ret
    IN /\ f = <<>> => r = Return(Nil, NoErr)
       /\ \A sep \in {",", " "} : \A k \in 1..(Len(f) + 1) :
            HoldsNumbers(f, sep, k) =>
              IF k = 1
              THEN r = Return(BorderSizes(NumberAt(f, sep, 1), NumberAt(f, sep, 1),
                                          NumberAt(f, sep, 1), NumberAt(f, sep, 1)), NoErr)
              ELSE IF k = 4
              THEN r = Return(BorderSizes(NumberAt(f, sep, 1), NumberAt(f, sep, 2),
                                          NumberAt(f, sep, 3), NumberAt(f, sep, 4)), NoErr)
              ELSE r.out = "return" /\ r.val = Nil /\ r.err.kind = "field"

\* red, green, blue of the names of the colour table
TableRGB(name) ==
  CASE name = <<"r","e","d">> -> <<1, 0, 0>>
    [] name = <<"b","l","u","e">> -> <<0, 0, 1>>
    [] name = <<"b","l","a","c","k">> -> <<0, 0, 0>>

\* C4: for every name of the colour table, also one whose RGB is all zero,
\* parseColor of that name in any letter case and with blanks around it
\* returns the table's RGB with alpha 1 and no error.
C4_NamedColor ==
  pret.fn = "parseColor" =>
    \A name \in ColorNames :
      ToLower(Trim(field, " ")) = name =>
        pret.ret = Return(Color4(TableRGB(name)[1], TableRGB(name)[2],
                                 TableRGB(name)[3], 1), NoErr)

\* C10: a non-empty field with a comma is cut at its commas and nowhere
\* else, so commas + 1 parts are counted against [min, max]; a field
\* without a comma is cut at its spaces.
C10_CommaSplit ==
  LET f == Trim(field, " ")
      parts == SplitField(f)
  IN /\ (f # <<>> /\ Count(f, ",") > 0) =>
          /\ Len(parts) = Count(f, ",") + 1
          /\ \A i \in 1..Len(parts) : Count(parts[i], ",") = 0
          /\ Join(parts, <<",">>) = f
          /\ pret.fn = "parseFloats" =>
               (pret.ret.err = err(<<"a">>, fieldMargins, "Invalid number of float32 values")
                  <=> Count(f, ",") + 1 \notin pret.min..pret.max)
     /\ (f # <<>> /\ Count(f, ",") = 0) =>
          /\ Len(parts) = Count(f, " ") + 1
          /\ Join(parts, <<" ">>) = f

\* parseFloats has rejected the count of a field holding a comma and a space
C10_Witness ==
  /\ pret.fn = "parseFloats"
  /\ Count(Trim(field, " "), ",") > 0
  /\ Count(Trim(field, " "), " ") > 0
  /\ pret.ret.err.kind = "field"

(***************************************************************************)
(* Properties of the Builder, checked under Spec.                          *)
(***************************************************************************)
KnownTypes == {descTypePanel, descTypeLabel, descTypeEdit}

\* the nodes of a description: itself and its descendants
RECURSIVE NodesOf(_)
NodesOf(pd) == {pd} \cup UNION { NodesOf(pd.Children[i]) : i \in 1..Len(pd.Children) }

\* the last call was Build of a name the Builder holds
BuiltHeld == last.fn = "Build" /\ last.name \in DOMAIN desc

\* the last call was Build and it returned an object and no error
BuiltOk ==
  /\ BuiltHeld
  /\ last.ret.out = "return" /\ last.ret.err = NoErr /\ last.ret.val # Nil

\* every Panel of the description has as many children as described, the
\* i-th being the object built from the i-th child description
RECURSIVE ChildrenMatch(_, _, _, _)
ChildrenMatch(obj, pd, pname, na) ==
  pd.Type = descTypePanel =>
    /\ Len(obj.children) = Len(pd.Children)
    /\ \A i \in 1..Len(pd.Children) :
         /\ obj.children[i] = build(pd.Children[i], pname, Nil, na).val
         /\ ChildrenMatch(obj.children[i], pd.Children[i], pname, na)

\* no node of the description is an Edit, whose constructor returns nil
NoEdit(pd) == \A n \in NodesOf(pd) : n.Type # descTypeEdit

\* C1: after a successful Build every Panel with N children described has
\* exactly N children attached, the i-th built from the i-th description
\* (stated for the descriptions whose nodes all build to an object).
C1_ChildrenInOrder ==
  (BuiltOk /\ NoEdit(desc[last.name])) =>
    ChildrenMatch(last.ret.val, desc[last.name], last.name, last.na)

\* C3: Build of a held name returns an object and no error, or no object
\* and an error; never neither.
C3_ObjectOrError ==
  BuiltHeld =>
    /\ last.ret.out = "return"
    /\ \/ last.ret.val # Nil /\ last.ret.err = NoErr
       \/ last.ret.val = Nil /\ last.ret.err # NoErr

\* what the input of ParseString decodes to: a record with a type is the
\* one root named "", anything else is a mapping of names to records
Decoded(doc) ==
  IF UnmarshalStruct(doc.root).val.Type # <<>>
  THEN [k \in {<<>>} |-> UnmarshalStruct(doc.root).val]
  ELSE UnmarshalMap(doc.root).val

\* C5: a ParseString call that returns no error leaves the Builder holding
\* the decoding of its input and nothing else; one that returns an error
\* leaves the held mapping as it was.
C5_ParseReplacesOrKeeps ==
  [][last'.fn = "ParseString" =>
       IF last'.err = NoErr THEN desc' = Decoded(last'.doc) ELSE desc' = desc]_vars

\* a ParseString call has failed on a Builder that holds descriptions
C5_Witness ==
  last.fn = "ParseString" /\ last.err # NoErr /\ DOMAIN desc # {}

\* some node of the description has a type that is not known
RECURSIVE AnyUnknown(_)
AnyUnknown(pd) ==
  \/ pd.Type \notin KnownTypes
  \/ \E i \in 1..Len(pd.Children) : AnyUnknown(pd.Children[i])

\* the root, or a node all of whose ancestors are Panels, has a type that
\* is not known
RECURSIVE UnknownUnderPanels(_)
UnknownUnderPanels(pd) ==
  \/ pd.Type \notin KnownTypes
  \/ /\ pd.Type = descTypePanel
     /\ \E i \in 1..Len(pd.Children) : UnknownUnderPanels(pd.Children[i])

FieldLabels == {fieldMargins, fieldBorders, fieldBorderColor, fieldPaddings, fieldColor}

\* the style field of a description with the given label does not parse
FieldFails(pd, fname) ==
  CASE fname = fieldMargins ->
         parseBorderSizes(pd.Name, fname, pd.Margins) # Return(Nil, NoErr)
         /\ parseBorderSizes(pd.Name, fname, pd.Margins).val = Nil
    [] fname = fieldBorders ->
         parseBorderSizes(pd.Name, fname, pd.Borders) # Return(Nil, NoErr)
         /\ parseBorderSizes(pd.Name, fname, pd.Borders).val = Nil
    [] fname = fieldPaddings ->
         parseBorderSizes(pd.Name, fname, pd.Paddings) # Return(Nil, NoErr)
         /\ parseBorderSizes(pd.Name, fname, pd.Paddings).val = Nil
    [] fname = fieldBorderColor -> parseColor(pd.Name, fname, pd.BorderColor).err # NoErr
    [] fname = fieldColor -> parseColor(pd.Name, fname, pd.Color).err # NoErr

\* the names of a node: its name, and for a root also its key
OwnNames(pd, root, key) == {pd.Name} \cup (IF pd = root THEN {key} ELSE {})

\* C7: an error Build returns for a style field, be it a wrong count or a
\* part that is no number, names a node whose field with that label fails,
\* by the node's own name, also for a descendant of the root.
C7_ErrorNamesNodeAndField ==
  (BuiltHeld /\ last.ret.out = "return" /\ last.ret.err.kind \in {"field", "parse"}) =>
    /\ last.ret.err.kind = "field"
    /\ last.ret.err.fname \in FieldLabels
    /\ \E n \in NodesOf(desc[last.name]) :
         /\ FieldFails(n, last.ret.err.fname)
         /\ last.ret.err.pname \in OwnNames(n, desc[last.name], last.name)

\* the YAML value is a record with a non-empty type
IsRecord(y) ==
  /\ y.kind = "map"
  /\ kType \in DOMAIN y.m
  /\ y.m[kType].kind = "str"
  /\ y.m[kType].s # <<>>

\* the YAML value is a mapping from keys to records
IsRecordMap(y) == y.kind = "map" /\ \A k \in DOMAIN y.m : IsRecord(y.m[k])

\* the sequence lists the strings of S once each, in lexicographic order
SortedListOf(q, S) ==
  /\ Len(q) = Cardinality(S)
  /\ {q[i] : i \in 1..Len(q)} = S
  /\ \A i \in 1..Len(q) : \A j \in (i + 1)..Len(q) : StrLess(q[i], q[j])

\* C8: ParseString of a record with a non-empty type succeeds and leaves
\* Names() = [""]; ParseString of a mapping from keys to records succeeds
\* and leaves Names() the sorted list of the keys, whatever the keys are.
C8_NamesAfterParse ==
  (last.fn = "ParseString" /\ last.doc.ok) =>
    /\ IsRecord(last.doc.root) =>
         last.err = NoErr /\ Names(desc) = << <<>> >>
    /\ IsRecordMap(last.doc.root) =>
         last.err = NoErr /\ SortedListOf(Names(desc), DOMAIN last.doc.root.m)

\* C9: Build of a name the Builder does not hold returns a not-found error
\* and no object, and every Build leaves the held mapping as it was.
C9_BuildReadsOnly ==
  [][last'.fn = "Build" =>
       /\ desc' = desc
       /\ Names(desc') = Names(desc)
       /\ last'.name \notin DOMAIN desc =>
            last'.ret = Return(Nil, NotFoundErr(last'.name))]_vars

\* Build of a name that is not held has failed on a Builder that holds
\* descriptions
C9_Witness ==
  /\ last.fn = "Build"
  /\ DOMAIN desc # {}
  /\ last.name \notin DOMAIN desc
  /\ last.ret.err = NotFoundErr(last.name)

====
